---- MODULE Spec2Model ----
(***************************************************************************)
(* Hybrid anime recommender: the franchise normalizer (normalize_title),   *)
(* the collaborative and content-based backends, the hybrid dispatcher and *)
(* the batch aggregator, modelled from backend/services and backend/utils. *)
(*                                                                         *)
(* Strings are sequences of one-character strings, so that lower(), the    *)
(* regular-expression cascade and Python's substring test are computed     *)
(* character by character.  Sequences are 1-based where Python is 0-based. *)
(***************************************************************************)
EXTENDS Integers, Sequences, FiniteSets, TLC

VARIABLES
    objects,    \* the context dict built at startup (key -> value)
    req,        \* the request being served / last served
    resp,       \* its outcome: an error status or a result dict
    called,     \* the backends the request entered, in call order
    aggregated, \* recommend_batch: aggregated_scores after averaging
    phase,      \* "starting", "failed" (startup raised) or "serving"
    disk,       \* the files found at startup
    nin,        \* normalizer harness: the input title
    nbase,      \* normalizer harness: the base title the input extends
    nout,       \* normalizer harness: outputs of successive applications
    npc         \* normalizer harness: number of applications made

vars == <<objects, req, resp, called, aggregated, phase, disk, nin, nbase, nout, npc>>

(***************************************************************************)
(* Bounds of the model.                                                    *)
(***************************************************************************)
MaxTokens == 3
NumItems == 3
MaxSeeds == 2
MaxLimit == 2

(***************************************************************************)
(* Characters and str methods.                                             *)
(***************************************************************************)
Uppers == <<"A","B","C","D","E","F","G","H","I","J","K","L","M",
            "N","O","P","Q","R","S","T","U","V","W","X","Y","Z">>
Lowers == <<"a","b","c","d","e","f","g","h","i","j","k","l","m",
            "n","o","p","q","r","s","t","u","v","w","x","y","z">>

Space == {" "}
Digit == {"0","1","2","3","4","5","6","7","8","9"}

LowerChar(c) ==
    IF \E i \in 1..Len(Uppers) : Uppers[i] = c
    THEN Lowers[CHOOSE i \in 1..Len(Uppers) : Uppers[i] = c]
    ELSE c

\* str.lower()
Lower(s) == [i \in 1..Len(s) |-> LowerChar(s[i])]

\* Python's  a in b  on strings: a occurs in b as a contiguous substring
\* (the empty string occurs in every string).
IsSubstring(a, b) ==
    \E i \in 0..(Len(b) - Len(a)) :
        \A j \in 1..Len(a) : b[i + j] = a[j]

\* str.replace(':', '')
RECURSIVE RemoveColons(_)
RemoveColons(s) ==
    IF s = <<>> THEN <<>>
    ELSE IF Head(s) = ":" THEN RemoveColons(Tail(s))
    ELSE <<Head(s)>> \o RemoveColons(Tail(s))

\* re.sub(r'\s+', ' ', s): every maximal run of whitespace becomes one space
RECURSIVE CollapseSpaces(_)
CollapseSpaces(s) ==
    IF s = <<>> THEN <<>>
    ELSE IF Head(s) \in Space
         THEN IF Len(s) > 1 /\ s[2] \in Space
              THEN CollapseSpaces(Tail(s))
              ELSE <<" ">> \o CollapseSpaces(Tail(s))
         ELSE <<Head(s)>> \o CollapseSpaces(Tail(s))

\* str.strip()
RECURSIVE Strip(_)
Strip(s) ==
    IF s = <<>> THEN <<>>
    ELSE IF Head(s) \in Space THEN Strip(Tail(s))
    ELSE IF s[Len(s)] \in Space THEN Strip(SubSeq(s, 1, Len(s) - 1))
    ELSE s

(***************************************************************************)
(* Regular expressions of title_normalizer.py.  A pattern is a sequence    *)
(* of elements [neg, set, q]: a character class (negated or not) with a    *)
(* quantifier "1", "*" or "+", or the anchor "$".                          *)
(***************************************************************************)
One(S)     == [neg |-> FALSE, set |-> S, q |-> "1"]
Star(S)    == [neg |-> FALSE, set |-> S, q |-> "*"]
Plus(S)    == [neg |-> FALSE, set |-> S, q |-> "+"]
PlusNot(S) == [neg |-> TRUE,  set |-> S, q |-> "+"]
EndAnchor  == [neg |-> FALSE, set |-> {}, q |-> "$"]
Lit(w)     == [i \in 1..Len(w) |-> One({w[i]})]

InClass(e, c) == IF e.neg THEN c \notin e.set ELSE c \in e.set

\* longest run of characters of e's class starting at position i
RunLength(e, s, i) ==
    LET ok(n) == \A j \in i..(i + n - 1) : InClass(e, s[j])
    IN  CHOOSE n \in 0..(Len(s) - i + 1) :
            /\ ok(n)
            /\ \A m \in (n + 1)..(Len(s) - i + 1) : ~ok(m)

\* The backtracking matcher of Python's re: MatchEnd is the position after
\* the match of pat[k..] anchored at i that the engine finds first (greedy
\* quantifiers give back one character at a time), or 0 if there is none.
RECURSIVE MatchEnd(_, _, _, _), TryRepeat(_, _, _, _, _, _)
MatchEnd(pat, k, s, i) ==
    IF k > Len(pat) THEN i
    ELSE LET e == pat[k] IN
         CASE e.q = "$" -> IF i = Len(s) + 1 THEN MatchEnd(pat, k + 1, s, i) ELSE 0
           [] e.q = "1" -> IF i <= Len(s) /\ InClass(e, s[i])
                           THEN MatchEnd(pat, k + 1, s, i + 1) ELSE 0
           [] e.q = "*" -> TryRepeat(pat, k, s, i, RunLength(e, s, i), 0)
           [] e.q = "+" -> TryRepeat(pat, k, s, i, RunLength(e, s, i), 1)

TryRepeat(pat, k, s, i, n, lo) ==
    IF n < lo THEN 0
    ELSE LET r == MatchEnd(pat, k + 1, s, i + n)
         IN  IF r # 0 THEN r ELSE TryRepeat(pat, k, s, i, n - 1, lo)

\* re.sub(pat, '', s): leftmost non-overlapping matches are deleted
RECURSIVE SubFrom(_, _, _)
SubFrom(pat, s, i) ==
    IF i > Len(s) THEN <<>>
    ELSE LET e == MatchEnd(pat, 1, s, i)
         IN  IF e # 0 THEN SubFrom(pat, s, e)
             ELSE <<s[i]>> \o SubFrom(pat, s, i + 1)

ReSub(pat, s) == SubFrom(pat, s, 1)

W_season      == <<"s","e","a","s","o","n">>
W_final       == <<"f","i","n","a","l">>
W_part        == <<"p","a","r","t">>
W_the         == <<"t","h","e">>
W_shippuden   == <<"s","h","i","p","p","u","d","e","n">>
W_brotherhood == <<"b","r","o","t","h","e","r","h","o","o","d">>
W_next        == <<"n","e","x","t">>
W_generations == <<"g","e","n","e","r","a","t","i","o","n","s">>

patterns == <<
    <<Star(Space)>> \o Lit(W_season) \o <<Plus(Space), Plus(Digit)>>,
    <<Star(Space), Plus(Digit), Star(Space)>> \o Lit(W_season),
    <<Star(Space), Plus(Digit)>> \o Lit(<<"n","d">>) \o <<Star(Space)>> \o Lit(W_season),
    <<Star(Space), Plus(Digit)>> \o Lit(<<"r","d">>) \o <<Star(Space)>> \o Lit(W_season),
    <<Star(Space), Plus(Digit)>> \o Lit(<<"t","h">>) \o <<Star(Space)>> \o Lit(W_season),
    <<Star(Space)>> \o Lit(W_final) \o <<Star(Space)>> \o Lit(W_season),
    <<Star(Space)>> \o Lit(W_part) \o <<Plus(Space), Plus(Digit)>>,
    <<Star(Space), Plus(Digit), EndAnchor>>,
    <<Star(Space), One({":"}), Star(Space)>> \o Lit(W_the) \o <<Plus(Space)>>
        \o Lit(W_final) \o <<Plus(Space)>> \o Lit(W_season),
    <<Star(Space), One({":"}), Star(Space)>> \o Lit(W_shippuden),
    <<Star(Space), One({":"}), Star(Space)>> \o Lit(W_brotherhood),
    <<Star(Space), One({":"}), Star(Space)>> \o Lit(W_next) \o <<Plus(Space)>>
        \o Lit(W_generations),
    <<Star(Space)>> \o Lit(W_shippuden),
    <<Star(Space)>> \o Lit(W_brotherhood),
    <<Star(Space), One({":"}), Star(Space), PlusNot({":"}), EndAnchor>>
>>

\* the for loop over patterns: each rule's output feeds the next
RECURSIVE ApplyPatterns(_, _)
ApplyPatterns(k, s) ==
    IF k > Len(patterns) THEN s
    ELSE ApplyPatterns(k + 1, ReSub(patterns[k], s))

normalize_title(title) ==
    IF title = <<>> THEN <<>>
    ELSE Strip(CollapseSpaces(RemoveColons(ApplyPatterns(1, Lower(title)))))

(***************************************************************************)
(* The titles of the catalogs that are model-checked.  normalize_title is  *)
(* tabulated once for them; base_title(t) is normalize_title(t).           *)
(***************************************************************************)
T_ShowA  == <<"S","h","o","w"," ","A">>
T_ShowA2 == <<"S","h","o","w"," ","A"," ","S","e","a","s","o","n"," ","2">>
T_ShowB  == <<"S","h","o","w"," ","B">>
T_ShowAB == <<"S","h","o","w"," ","A","B">>
T_ShowA3 == <<"S","h","o","w"," ","A"," ","3">>

TitlePool == <<T_ShowA, T_ShowA2, T_ShowB, T_ShowAB, T_ShowA3>>

BaseTitleTable ==
    [t \in {Lower(TitlePool[i]) : i \in 1..Len(TitlePool)} |-> normalize_title(t)]

base_title(t) ==
    IF t \in DOMAIN BaseTitleTable THEN BaseTitleTable[t] ELSE normalize_title(t)

(***************************************************************************)
(* Python dict and list helpers.                                           *)
(***************************************************************************)
EmptyDict == <<>>

\* d.get(k, default)
Get(d, k, default) == IF k \in DOMAIN d THEN d[k] ELSE default

Range(seq) == {seq[i] : i \in 1..Len(seq)}

MinOf(a, b) == IF a <= b THEN a ELSE b

\* seq[:n]
Take(seq, n) == SubSeq(seq, 1, MinOf(n, Len(seq)))

\* the elements of a set of integers as an ascending list
RECURSIVE Ascending(_)
Ascending(S) ==
    IF S = {} THEN <<>>
    ELSE LET m == CHOOSE x \in S : \A y \in S : x <= y
         IN  <<m>> \o Ascending(S \ {m})

DigitChars == <<"0","1","2","3","4","5","6","7","8","9">>

\* str(n) for n >= 0
RECURSIVE IntToStr(_)
IntToStr(n) ==
    IF n < 10 THEN <<DigitChars[n + 1]>>
    ELSE IntToStr(n \div 10) \o <<DigitChars[(n % 10) + 1]>>

(***************************************************************************)
(* Similarity.  Vectors are integer pairs with integer norms, and a score  *)
(* is the cosine in units of 1/ScoreScale, so that every cosine and every  *)
(* mean over up to six seeds is an exact integer.                          *)
(***************************************************************************)
ScoreScale == 25 * 12

Dot(u, v) == u[1] * v[1] + u[2] * v[2]

Norm(u) == CHOOSE n \in 0..(Dot(u, u)) : n * n = Dot(u, u)

\* sklearn.metrics.pairwise.cosine_similarity of two rows
Cosine(u, v) == (Dot(u, v) * ScoreScale) \div (Norm(u) * Norm(v))

\* cosine_similarity(target_vector, matrix).flatten()
CosineRow(u, matrix) == [i \in 1..Len(matrix) |-> Cosine(u, matrix[i])]

\* scores.argsort()[::-1]: the positions by descending score.  numpy's
\* default sort is not stable, so positions with equal scores come in any
\* order.
ArgsortDesc(scores) ==
    {p \in Permutations(1..Len(scores)) :
        \A i, j \in 1..Len(scores) : i < j => scores[p[i]] >= scores[p[j]]}

\* list.sort(key=score, reverse=True) and sorted(..., reverse=True):
\* stable, elements with equal scores keep their order.
\* mutant: reverse=True forgotten, the sort is ascending
RECURSIVE InsertByScore_ascending(_, _)
InsertByScore_ascending(sorted, x) ==
    IF sorted = <<>> THEN <<x>>
    ELSE IF Head(sorted).score <= x.score
         THEN <<Head(sorted)>> \o InsertByScore_ascending(Tail(sorted), x)
         ELSE <<x>> \o sorted

RECURSIVE InsertByScore(_, _)
InsertByScore(sorted, x) ==
    IF sorted = <<>> THEN <<x>>
    ELSE IF Head(sorted).score >= x.score
         THEN <<Head(sorted)>> \o InsertByScore(Tail(sorted), x)
         ELSE <<x>> \o sorted

RECURSIVE SortByScoreFrom(_, _, _)
SortByScoreFrom(seq, k, acc) ==
    IF k > Len(seq) THEN acc
    ELSE SortByScoreFrom(seq, k + 1, InsertByScore(acc, seq[k]))

SortByScore(seq) == SortByScoreFrom(seq, 1, <<>>)

(***************************************************************************)
(* Responses.                                                              *)
(***************************************************************************)
NoResult == <<>>

HTTPException(status_code, detail) ==
    [status |-> status_code, detail |-> detail, result |-> NoResult]

Returned(result) == [status |-> 200, detail |-> "", result |-> result]

(***************************************************************************)
(* The dedup loop shared by the three recommenders.                        *)
(***************************************************************************)
PlaceholderTitle(rec_id) == <<"A","n","i","m","e"," ","#">> \o IntToStr(rec_id)

\* the dict literal built for a kept candidate
RecData(rec_id, meta, score) ==
    [id    |-> rec_id,
     title |-> Get(meta, "title", PlaceholderTitle(rec_id)),
     genre |-> Get(meta, "genre", "Unknown"),
     score |-> score]

\* seen_base_titles is an insertion-ordered dict: a list of entries
\* [key, score, rec] with distinct keys. 
SeenIndex(seen, key) ==
    IF \E i \in 1..Len(seen) : seen[i].key = key
    THEN CHOOSE i \in 1..Len(seen) : seen[i].key = key
    ELSE 0

\* mutant: the base title is never looked up, every candidate is appended
Remember_no_dedup(seen, rec_base_title, score, rec) ==
    Append(seen, [key |-> rec_base_title, score |-> score, rec |-> rec])

\* mutant: an equal score replaces the entry as well
Remember_replace_on_tie(seen, rec_base_title, score, rec) ==
    LET at == SeenIndex(seen, rec_base_title)
        entry == [key |-> rec_base_title, score |-> score, rec |-> rec]
    IN  IF at # 0
        THEN IF score >= seen[at].score
             THEN [seen EXCEPT ![at] = entry]
             ELSE seen
        ELSE Append(seen, entry)

\* FILTER 2: a base title seen before is replaced only by a strictly better
\* score (in place); a new base title is appended.
Remember(seen, rec_base_title, score, rec) ==
    LET at == SeenIndex(seen, rec_base_title)
        entry == [key |-> rec_base_title, score |-> score, rec |-> rec]
    IN  IF at # 0
        THEN IF score > seen[at].score
             THEN [seen EXCEPT ![at] = entry]
             ELSE seen
        ELSE Append(seen, entry)

\* [rec for _, rec in seen_base_titles.values()]
SeenValues(seen) == [i \in 1..Len(seen) |-> seen[i].rec]

\* mutant: only the base titles are compared, the substring tests are gone
IsSequelOfInput_key_only(input_title, input_base_title, rec_title, rec_base_title) ==
    input_base_title = rec_base_title

\* mutant: a seed without a title is not compared by substring
IsSequelOfInput_titled_only(input_title, input_base_title, rec_title, rec_base_title) ==
    \/ /\ input_title # <<>>
       /\ \/ IsSubstring(input_title, rec_title)
          \/ IsSubstring(rec_title, input_title)
    \/ input_base_title = rec_base_title

\* FILTER 1 of the single-seed recommenders
IsSequelOfInput(input_title, input_base_title, rec_title, rec_base_title) ==
    \/ IsSubstring(input_title, rec_title)
    \/ IsSubstring(rec_title, input_title)
    \/ input_base_title = rec_base_title

\* the for loop of recommend_collaborative / recommend_content_based over
\* the candidates cands = <<[id, score], ...>>
RECURSIVE SingleSeedLoop(_, _, _, _, _, _, _)
SingleSeedLoop(cands, k, seen, anime_id, input_title, input_base_title, metadata) ==
    IF k > Len(cands) THEN seen
    ELSE LET rec_id == cands[k].id
             meta == Get(metadata, rec_id, EmptyDict)
             rec_title == Lower(Get(meta, "title", <<>>))
             rec_base_title == base_title(rec_title)
             next ==
                 IF rec_id = anime_id THEN seen
                 ELSE IF IsSequelOfInput(input_title, input_base_title,
                                         rec_title, rec_base_title) THEN seen
                 ELSE Remember(seen, rec_base_title, cands[k].score,
                               RecData(rec_id, meta, cands[k].score))
         IN  SingleSeedLoop(cands, k + 1, next, anime_id, input_title,
                            input_base_title, metadata)

TopCandidates == 50

(***************************************************************************)
(* services/recommendation_service.py and content_based_service.py.  Each  *)
(* recommender yields the set of outcomes it can produce (more than one    *)
(* only where equal scores leave the candidate order open).                *)
(***************************************************************************)
recommend_collaborative(anime_id, objs, limit) ==
    IF "anime_id_to_idx" \notin DOMAIN objs
    THEN {HTTPException(503, "Model not loaded")}
    ELSE IF anime_id \notin DOMAIN Get(objs, "anime_id_to_idx", EmptyDict)
    THEN {HTTPException(404, "Anime ID not found in SVD model")}
    ELSE
      LET input_meta == Get(objs.metadata, anime_id, EmptyDict)
          input_title == Lower(Get(input_meta, "title", <<>>))
          input_base_title == base_title(input_title)
          idx == objs.anime_id_to_idx[anime_id]
          scores == CosineRow(objs.item_vectors[idx], objs.item_vectors)
          Result(top_indices) ==
              LET cands == [k \in 1..Len(top_indices) |->
                              [id    |-> objs.idx_to_anime_id[top_indices[k]],
                               score |-> scores[top_indices[k]]]]
                  seen_base_titles ==
                      SingleSeedLoop(cands, 1, <<>>, anime_id, input_title,
                                     input_base_title, objs.metadata)
                  recommendations == SortByScore(SeenValues(seen_base_titles))
              IN  Returned([recommendations |-> Take(recommendations, limit),
                            method |-> "collaborative",
                            message |-> "Using Collaborative Filtering (SVD)"])
      IN  {Result(Take(p, TopCandidates)) : p \in ArgsortDesc(scores)}

\* list.index(x): the first position of x, 0 for ValueError
IndexOf(seq, x) ==
    IF \E i \in 1..Len(seq) : seq[i] = x
    THEN CHOOSE i \in 1..Len(seq) : seq[i] = x /\ \A j \in 1..(i - 1) : seq[j] # x
    ELSE 0

recommend_content_based(anime_id, objs, limit) ==
    IF "tfidf_matrix" \notin DOMAIN objs
    THEN {HTTPException(503, "TF-IDF index not loaded")}
    ELSE
      LET input_meta == Get(objs.metadata, anime_id, EmptyDict) IN
      IF input_meta = EmptyDict
      THEN {HTTPException(404, "Anime not found in metadata")}
      ELSE
        LET input_title == Lower(Get(input_meta, "title", <<>>))
            input_base_title == base_title(input_title)
            anime_idx == IndexOf(objs.tfidf_anime_ids, anime_id)
        IN
        IF anime_idx = 0
        THEN {HTTPException(404, "Anime not found in TF-IDF index")}
        ELSE
          LET similarities == CosineRow(objs.tfidf_matrix[anime_idx], objs.tfidf_matrix)
              Result(top_indices) ==
                  LET cands == [k \in 1..Len(top_indices) |->
                                  [id    |-> objs.tfidf_anime_ids[top_indices[k]],
                                   score |-> similarities[top_indices[k]]]]
                      seen_base_titles ==
                          SingleSeedLoop(cands, 1, <<>>, anime_id, input_title,
                                         input_base_title, objs.metadata)
                      recommendations == SortByScore(SeenValues(seen_base_titles))
                  IN  Returned([recommendations |-> Take(recommendations, limit),
                                method |-> "content_based",
                                message |-> "Using Content-Based Filtering (TF-IDF)"])
          IN  {Result(Take(p, TopCandidates)) : p \in ArgsortDesc(similarities)}

\* mutant: the dispatch looks at the catalog instead of the index
HybridBackend_by_metadata(anime_id, objs) ==
    IF anime_id \in DOMAIN Get(objs, "metadata", EmptyDict)
    THEN "recommend_content_based"
    ELSE "recommend_collaborative"

\* mutant: without a loaded model the id is handed to the collaborative
\* backend, which reports it
HybridBackend_model_required(anime_id, objs) ==
    IF "anime_id_to_idx" \notin DOMAIN objs
           \/ anime_id \in DOMAIN Get(objs, "anime_id_to_idx", EmptyDict)
    THEN "recommend_collaborative"
    ELSE "recommend_content_based"

\* which backend recommend_hybrid enters
HybridBackend(anime_id, objs) ==
    IF anime_id \in DOMAIN Get(objs, "anime_id_to_idx", EmptyDict)
    THEN "recommend_collaborative"
    ELSE "recommend_content_based"

recommend_hybrid(anime_id, objs, limit) ==
    IF HybridBackend(anime_id, objs) = "recommend_collaborative"
    THEN recommend_collaborative(anime_id, objs, limit)
    ELSE recommend_content_based(anime_id, objs, limit)

BatchCandidates == 100

\* the running sum of recommend_batch for the item at position i: its
\* score against every seed that is in the index, seeds[k..]
RECURSIVE SumOfScores(_, _, _, _)
SumOfScores(seeds, k, i, objs) ==
    IF k > Len(seeds) THEN 0
    ELSE Cosine(objs.item_vectors[objs.anime_id_to_idx[seeds[k]]],
                objs.item_vectors[i])
         + SumOfScores(seeds, k + 1, i, objs)

\* mutant: the seeds themselves are accumulated like any other item
BatchAggregate_keep_seeds(anime_ids, objs) ==
    LET valid == SelectSeq(anime_ids,
                     LAMBDA a : a \in DOMAIN Get(objs, "anime_id_to_idx", EmptyDict))
        valid_count == Len(valid)
        positions == IF valid_count = 0 THEN <<>>
                     ELSE [i \in 1..Len(objs.idx_to_anime_id) |-> i]
    IN  [valid_count |-> valid_count,
         items |-> [k \in 1..Len(positions) |->
                      [id    |-> objs.idx_to_anime_id[positions[k]],
                       score |-> SumOfScores(valid, 1, positions[k], objs)
                                     \div valid_count]]]

\* mutant: the sum is divided by the number of seeds supplied
BatchAggregate_div_len(anime_ids, objs) ==
    LET valid == SelectSeq(anime_ids,
                     LAMBDA a : a \in DOMAIN Get(objs, "anime_id_to_idx", EmptyDict))
        valid_count == Len(valid)
        positions == IF valid_count = 0 THEN <<>>
                     ELSE SelectSeq([i \in 1..Len(objs.idx_to_anime_id) |-> i],
                              LAMBDA i : objs.idx_to_anime_id[i] \notin Range(anime_ids))
    IN  [valid_count |-> valid_count,
         items |-> [k \in 1..Len(positions) |->
                      [id    |-> objs.idx_to_anime_id[positions[k]],
                       score |-> SumOfScores(valid, 1, positions[k], objs)
                                     \div Len(anime_ids)]]]

\* valid_count and aggregated_scores.items() after the averaging loop, in
\* the dict's insertion order (the order of the index positions)
BatchAggregate(anime_ids, objs) ==
    LET valid == SelectSeq(anime_ids,
                     LAMBDA a : a \in DOMAIN Get(objs, "anime_id_to_idx", EmptyDict))
        valid_count == Len(valid)
        positions == IF valid_count = 0 THEN <<>>
                     ELSE SelectSeq([i \in 1..Len(objs.idx_to_anime_id) |-> i],
                              LAMBDA i : objs.idx_to_anime_id[i] \notin Range(anime_ids))
    IN  [valid_count |-> valid_count,
         items |-> [k \in 1..Len(positions) |->
                      [id    |-> objs.idx_to_anime_id[positions[k]],
                       score |-> SumOfScores(valid, 1, positions[k], objs)
                                     \div valid_count]]]

\* the for loop of recommend_batch over sorted_recs
RECURSIVE BatchLoop(_, _, _, _, _)
BatchLoop(cands, k, seen, input_base_titles, metadata) ==
    IF k > Len(cands) THEN seen
    ELSE LET rec_id == cands[k].id
             meta == Get(metadata, rec_id, EmptyDict)
             rec_title == Lower(Get(meta, "title", <<>>))
             rec_base_title == base_title(rec_title)
             next ==
                 IF rec_base_title \in input_base_titles THEN seen
                 ELSE Remember(seen, rec_base_title, cands[k].score,
                               RecData(rec_id, meta, cands[k].score))
         IN  BatchLoop(cands, k + 1, next, input_base_titles, metadata)

\* recommend_batch from "Get top candidates" on: filter, deduplicate, sort
\* and build the result
BatchResult(anime_ids, objs, limit, input_base_titles, agg) ==
    LET metadata == Get(objs, "metadata", EmptyDict)
        with_meta == SelectSeq(anime_ids, LAMBDA a : a \in DOMAIN metadata)
        sorted_recs == Take(SortByScore(agg.items), BatchCandidates)
        seen_base_titles ==
            BatchLoop(sorted_recs, 1, <<>>, input_base_titles, objs.metadata)
        recommendations == SortByScore(SeenValues(seen_base_titles))
        input_titles ==
            [k \in 1..Len(with_meta) |->
                Get(metadata[with_meta[k]], "title", PlaceholderTitle(with_meta[k]))]
    IN  Returned([recommendations |-> Take(recommendations, limit),
                  method |-> "batch_collaborative",
                  message |-> <<"Based on", Len(anime_ids),
                                IF Len(anime_ids) > 1 THEN "animes" ELSE "anime",
                                "in your list">>,
                  input_titles |-> Take(input_titles, 5)])

\* the base titles of the seeds that have metadata
InputBaseTitles(anime_ids, objs) ==
    LET metadata == Get(objs, "metadata", EmptyDict)
    IN  {base_title(Lower(Get(metadata[a], "title", <<>>))) :
             a \in {x \in Range(anime_ids) : x \in DOMAIN metadata}}

\* mutant: the valid_count == 0 check is gone
recommend_batch_no_404(anime_ids, objs, limit) ==
    IF "anime_id_to_idx" \notin DOMAIN objs
    THEN {HTTPException(503, "Model not loaded")}
    ELSE {BatchResult(anime_ids, objs, limit, InputBaseTitles(anime_ids, objs),
                      BatchAggregate(anime_ids, objs))}

recommend_batch(anime_ids, objs, limit) ==
    IF "anime_id_to_idx" \notin DOMAIN objs
    THEN {HTTPException(503, "Model not loaded")}
    ELSE IF BatchAggregate(anime_ids, objs).valid_count = 0
    THEN {HTTPException(404, "None of the provided anime IDs found in model")}
    ELSE {BatchResult(anime_ids, objs, limit, InputBaseTitles(anime_ids, objs),
                      BatchAggregate(anime_ids, objs))}

\* mutant: the boundary passes an empty list on
recommend_batch_endpoint_unchecked(anime_ids, objs, limit) ==
    recommend_batch(anime_ids, objs, limit)

\* The boundary in front of recommend_batch: an empty seed list is an
\* invalid-input error there and never reaches the aggregator.
recommend_batch_endpoint(anime_ids, objs, limit) ==
    IF anime_ids = <<>>
    THEN {HTTPException(400, "No anime IDs provided")}
    ELSE recommend_batch(anime_ids, objs, limit)

(***************************************************************************)
(* Startup (data_loader.py).  The files on disk are an item list: every    *)
(* item has a feature vector; it has a row in the metadata CSV (unless     *)
(* its title is NoTitle) and/or a column in the trained model (svd).  The  *)
(* same vector serves as the item's latent vector and as its TF-IDF row:   *)
(* a request reads one of the two spaces only.                             *)
(***************************************************************************)
VecPool   == << <<1, 0>>, <<3, 4>>, <<0, 1>> >>
GenrePool == <<"Action", "Action, Drama", "Drama">>

AnimeIds == 1..NumItems

\* an item kind is a code: title index (0: no metadata row), vector index,
\* and whether the item was in the training data
KindCodes ==
    {c \in 0..((Len(TitlePool) + 1) * Len(VecPool) * 2 - 1) :
        c % (Len(TitlePool) + 1) # 0 \/ c \div ((Len(TitlePool) + 1) * Len(VecPool)) = 1}
KindTitle(c) == c % (Len(TitlePool) + 1)
KindVec(c)   == ((c \div (Len(TitlePool) + 1)) % Len(VecPool)) + 1
KindSvd(c)   == c \div ((Len(TitlePool) + 1) * Len(VecPool)) = 1

\* Item ids carry no meaning, so one catalog per multiset of kinds is drawn.
Catalogs ==
    {cat \in [AnimeIds -> KindCodes] :
        \A i, j \in AnimeIds : i < j => cat[i] <= cat[j]}

\* the index positions follow the ids upwards or downwards
IdxOrders(cat) ==
    LET up == Ascending({a \in AnimeIds : KindSvd(cat[a])})
    IN  {up, [i \in 1..Len(up) |-> up[Len(up) + 1 - i]]}

\* The files at MODEL_PATH and METADATA_PATH: either may be missing.  The
\* model file is model_data as train_model.py saves it; its positions
\* follow the order of first appearance in the ratings file, idx_order.
Disk(cat, idx_order, model_exists, metadata_exists) ==
    [cat |-> cat, idx_order |-> idx_order,
     model_exists |-> model_exists, metadata_exists |-> metadata_exists]

\* what a loader hands back: a value, or the exception it raised
Ok(value) == [exc |-> "none", value |-> value]
Raise(exc, message) == [exc |-> exc, value |-> message]

load_svd_model(d) ==
    IF d.model_exists
    THEN [model            |-> "TruncatedSVD",
          anime_id_to_idx  |-> [a \in Range(d.idx_order) |->
                                   CHOOSE i \in 1..Len(d.idx_order) : d.idx_order[i] = a],
          idx_to_anime_id  |-> d.idx_order,
          item_vectors     |-> [i \in 1..Len(d.idx_order) |->
                                   VecPool[KindVec(d.cat[d.idx_order[i]])]]]
    ELSE EmptyDict

load_metadata(d) ==
    IF ~d.metadata_exists
    THEN Raise("FileNotFoundError", "Metadata not found")
    ELSE Ok([metadata |->
                [a \in {x \in AnimeIds : KindTitle(d.cat[x]) # 0} |->
                    [title |-> TitlePool[KindTitle(d.cat[a])],
                     genre |-> GenrePool[KindVec(d.cat[a])]]]])

\* TfidfVectorizer.fit_transform over the genre strings, one row per
\* metadata entry in the dict's order
build_tfidf_index(metadata) ==
    LET anime_ids == Ascending(DOMAIN metadata)
        RowOf(genre) == VecPool[CHOOSE g \in 1..Len(GenrePool) : GenrePool[g] = genre]
    IN  [tfidf_vectorizer |-> "TfidfVectorizer",
         tfidf_matrix     |-> [k \in 1..Len(anime_ids) |-> RowOf(metadata[anime_ids[k]].genre)],
         tfidf_anime_ids  |-> anime_ids]

required_keys == <<"model", "anime_id_to_idx", "idx_to_anime_id", "metadata">>

\* initialize_all up to the validation: objects.update(...) is the union
\* of the dicts
LoadAll(d) ==
    LET metadata_objects == load_metadata(d).value
    IN  build_tfidf_index(metadata_objects.metadata)
            @@ metadata_objects @@ load_svd_model(d)

\* mutant: the required keys are not validated
initialize_all_unvalidated(d) ==
    IF load_metadata(d).exc # "none" THEN load_metadata(d)
    ELSE Ok(LoadAll(d))

initialize_all(d) ==
    IF load_metadata(d).exc # "none" THEN load_metadata(d)
    ELSE LET objs == LoadAll(d)
             missing == SelectSeq(required_keys, LAMBDA key : key \notin DOMAIN objs)
         IN  IF missing # <<>>
             THEN Raise("ValueError", <<"Failed to load required data", missing[1]>>)
             ELSE Ok(objs)

(***************************************************************************)
(* The serving state machine.                                              *)
(***************************************************************************)
\* mutant: the candidates' metadata is fetched with setdefault, which leaves
\* an empty entry in the catalog for every indexed id that had none
ContextAfter_setdefault(entered, objs) ==
    IF "recommend_collaborative" \in Range(entered)
           \/ "recommend_batch" \in Range(entered)
    THEN LET metadata == Get(objs, "metadata", EmptyDict)
             ids == DOMAIN metadata \cup DOMAIN Get(objs, "anime_id_to_idx", EmptyDict)
         IN  [metadata |-> [a \in ids |-> Get(metadata, a, EmptyDict)]] @@ objs
    ELSE objs

\* The context after a request that entered the functions of `entered`:
\* they read objects with [] and .get(), index the matrices and build new
\* lists and dicts; none assigns into objects or into a value held by it.
ContextAfter(entered, objs) == objs

NoRequest == [op |-> "none"]
NoResponse == [status |-> 0, detail |-> "", result |-> NoResult]

RequestIds == 0..NumItems
Limits == 1..MaxLimit
SeedLists == UNION {[1..n -> RequestIds] : n \in 0..MaxSeeds}

\* the process has been started and the application object built; the
\* context is still empty
Init ==
    /\ \E cat \in Catalogs : \E idx_order \in IdxOrders(cat) :
           \E model_exists \in BOOLEAN, metadata_exists \in BOOLEAN :
               disk = Disk(cat, idx_order, model_exists, metadata_exists)
    /\ objects = EmptyDict
    /\ phase = "starting"
    /\ req = NoRequest
    /\ resp = NoResponse
    /\ called = <<>>
    /\ aggregated = <<>>
    /\ nin = <<>>
    /\ nbase = <<>>
    /\ nout = <<>>
    /\ npc = 0

\* the startup barrier: initialize_all runs once; if it raises the process
\* ends, otherwise its context is the one every request is served from
Startup ==
    /\ phase = "starting"
    /\ LET out == initialize_all(disk)
       IN  IF out.exc = "none"
           THEN /\ objects' = out.value
                /\ phase' = "serving"
           ELSE /\ phase' = "failed"
                /\ UNCHANGED objects
    /\ UNCHANGED <<disk, req, resp, called, aggregated, nin, nbase, nout, npc>>

\* GET /recommend/{anime_id}
Recommend ==
    \E anime_id \in RequestIds, limit \in Limits :
        /\ phase = "serving"
        /\ req = NoRequest
        /\ req' = [op |-> "recommend", anime_id |-> anime_id, limit |-> limit]
        /\ resp' \in recommend_hybrid(anime_id, objects, limit)
        /\ called' = <<"recommend_hybrid", HybridBackend(anime_id, objects)>>
        /\ aggregated' = <<>>
        /\ objects' = ContextAfter(called', objects)
        /\ UNCHANGED <<phase, disk, nin, nbase, nout, npc>>

\* POST /recommend/batch
RecommendBatch ==
    \E anime_ids \in SeedLists, limit \in Limits :
        /\ phase = "serving"
        /\ req = NoRequest
        /\ req' = [op |-> "recommend_batch", anime_ids |-> anime_ids, limit |-> limit]
        /\ resp' \in recommend_batch_endpoint(anime_ids, objects, limit)
        /\ called' = IF anime_ids = <<>> THEN <<>> ELSE <<"recommend_batch">>
        /\ aggregated' =
               IF anime_ids # <<>> /\ "anime_id_to_idx" \in DOMAIN objects
               THEN BatchAggregate(anime_ids, objects)
               ELSE <<>>
        /\ objects' = ContextAfter(called', objects)
        /\ UNCHANGED <<phase, disk, nin, nbase, nout, npc>>

\* the response is sent and the handler returns; nothing of the request
\* survives it
Reply ==
    /\ req # NoRequest
    /\ req' = NoRequest
    /\ resp' = NoResponse
    /\ called' = <<>>
    /\ aggregated' = <<>>
    /\ UNCHANGED <<objects, phase, disk, nin, nbase, nout, npc>>

Next == Startup \/ Recommend \/ RecommendBatch \/ Reply

Spec == Init /\ [][Next]_vars

(***************************************************************************)
(* The service functions on a context without the latent factor index:     *)
(* the dict as load_svd_model, load_metadata and build_tfidf_index leave   *)
(* it when the model file is missing, handed to the functions by a caller  *)
(* that does not go through the validation of initialize_all.              *)
(***************************************************************************)
DegradedInit ==
    /\ \E cat \in {c \in Catalogs : \A a \in AnimeIds : ~KindSvd(c[a])} :
           disk = Disk(cat, <<>>, FALSE, TRUE)
    /\ objects = LoadAll(disk)
    /\ phase = "serving"
    /\ req = NoRequest
    /\ resp = NoResponse
    /\ called = <<>>
    /\ aggregated = <<>>
    /\ nin = <<>>
    /\ nbase = <<>>
    /\ nout = <<>>
    /\ npc = 0

\* a direct call of recommend_collaborative(anime_id, objects, limit)
CallCollaborative ==
    \E anime_id \in RequestIds, limit \in Limits :
        /\ phase = "serving"
        /\ req = NoRequest
        /\ req' = [op |-> "recommend_collaborative", anime_id |-> anime_id,
                   limit |-> limit]
        /\ resp' \in recommend_collaborative(anime_id, objects, limit)
        /\ called' = <<"recommend_collaborative">>
        /\ aggregated' = <<>>
        /\ objects' = ContextAfter(called', objects)
        /\ UNCHANGED <<phase, disk, nin, nbase, nout, npc>>

DegradedNext == Recommend \/ RecommendBatch \/ CallCollaborative \/ Reply

SpecDegraded == DegradedInit /\ [][DegradedNext]_vars

(***************************************************************************)
(* Normalizer harness: titles are built from a pool of words, digits,      *)
(* colons and marker words, joined by single spaces (a colon is written    *)
(* directly after the word before it).                                     *)
(***************************************************************************)
TokenPool == {
    <<"S","h","o","w">>, <<"B">>, <<"2">>, <<"3">>, <<":">>,
    <<"S","e","a","s","o","n">>, <<"P","a","r","t">>, <<"F","i","n","a","l">>,
    <<"2","n","d">>, <<"S","h","i","p","p","u","d","e","n">>,
    <<"B","r","o","t","h","e","r","h","o","o","d">>
}

TokenSeqs == UNION {[1..n -> TokenPool] : n \in 1..MaxTokens}

RECURSIVE Render(_)
Render(ts) ==
    IF ts = <<>> THEN <<>>
    ELSE IF Len(ts) = 1 THEN ts[1]
    ELSE IF ts[2] = <<":">> THEN ts[1] \o Render(Tail(ts))
    ELSE ts[1] \o <<" ">> \o Render(Tail(ts))

NormInit ==
    /\ nin \in {Render(ts) : ts \in TokenSeqs} \cup {<<>>}
    /\ nbase = <<>>
    /\ nout = <<>>
    /\ npc = 0
    /\ objects = <<>>
    /\ req = <<>>
    /\ resp = <<>>
    /\ called = <<>>
    /\ aggregated = <<>>
    /\ phase = <<>>
    /\ disk = <<>>

\* one more application of normalize_title to the previous output
Normalize ==
    /\ npc < 2
    /\ nout' = Append(nout, normalize_title(IF npc = 0 THEN nin ELSE nout[npc]))
    /\ npc' = npc + 1
    /\ UNCHANGED <<objects, req, resp, called, aggregated, phase, disk, nin, nbase>>

NormNext == Normalize

SpecNorm == NormInit /\ [][NormNext]_vars

(***************************************************************************)
(* Sequel-collapse harness: a base title of plain words, and the same      *)
(* title extended by one sequel marker; both are normalized.               *)
(***************************************************************************)
PlainWords == {<<"N","a","r","u","t","o">>, <<"S","h","o","w">>, <<"B">>}

BaseTitles == {Render(ws) : ws \in UNION {[1..n -> PlainWords] : n \in 1..(MaxTokens - 1)}}

M_Season2      == <<" ","S","e","a","s","o","n"," ","2">>
M_Season10     == <<" ","S","e","a","s","o","n"," ","1","0">>
M_2ndSeason    == <<" ","2","n","d"," ","S","e","a","s","o","n">>
M_3rdSeason    == <<" ","3","r","d"," ","S","e","a","s","o","n">>
M_4thSeason    == <<" ","4","t","h"," ","S","e","a","s","o","n">>
M_FinalSeason  == <<" ","F","i","n","a","l"," ","S","e","a","s","o","n">>
M_Part2        == <<" ","P","a","r","t"," ","2">>
M_Two          == <<" ","2">>
M_Shippuden    == <<" ","S","h","i","p","p","u","d","e","n">>
M_Brotherhood  == <<" ","B","r","o","t","h","e","r","h","o","o","d">>
M_NextGen      == <<" ","N","e","x","t"," ","G","e","n","e","r","a","t","i","o","n","s">>
M_Subtitle     == <<" ","T","h","e"," ","M","o","v","i","e">>
M_SubtitleB    == <<" ","B">>

\* the markers written after the title, and the markers written after a colon
StandaloneMarkers ==
    {M_Season2, M_Season10, M_2ndSeason, M_3rdSeason, M_4thSeason,
     M_FinalSeason, M_Part2, M_Two, M_Shippuden, M_Brotherhood, M_NextGen}
ColonMarkers ==
    {<<":">> \o m : m \in {M_Shippuden, M_Brotherhood, M_NextGen,
                            M_Subtitle, M_SubtitleB}}
SequelMarkers == StandaloneMarkers \cup ColonMarkers

CollapseInit ==
    /\ \/ /\ nbase \in BaseTitles
          /\ nin \in {nbase \o m : m \in SequelMarkers}
       \/ /\ nbase = <<>>
          /\ nin = <<>>
    /\ nout = <<>>
    /\ npc = 0
    /\ objects = <<>>
    /\ req = <<>>
    /\ resp = <<>>
    /\ called = <<>>
    /\ aggregated = <<>>
    /\ phase = <<>>
    /\ disk = <<>>

\* the franchise keys of the base title and of the extended title
Collapse ==
    /\ npc = 0
    /\ nout' = <<normalize_title(nbase), normalize_title(nin)>>
    /\ npc' = 1
    /\ UNCHANGED <<objects, req, resp, called, aggregated, phase, disk, nin, nbase>>

CollapseNext == Collapse

SpecCollapse == CollapseInit /\ [][CollapseNext]_vars

(***************************************************************************)
(* What the properties below read off a state.                             *)
(***************************************************************************)
Served(op) == req.op = op /\ resp.status = 200
Recs == resp.result.recommendations
RecIds == {Recs[k].id : k \in 1..Len(Recs)}

InIndex(a) == a \in DOMAIN objects.anime_id_to_idx
InCatalog(a) == a \in DOMAIN objects.metadata
LowerTitleOf(a) == Lower(Get(Get(objects.metadata, a, EmptyDict), "title", <<>>))
FranchiseKey(a) == base_title(LowerTitleOf(a))
LatentVector(a) == objects.item_vectors[objects.anime_id_to_idx[a]]

TitlesRelated(a, b) ==
    \/ IsSubstring(LowerTitleOf(a), LowerTitleOf(b))
    \/ IsSubstring(LowerTitleOf(b), LowerTitleOf(a))

\* the catalog of the scenario {1: "Show A", 2: "Show A Season 2", 3: "Show B"}
ShowScenario ==
    /\ DOMAIN objects.metadata = {1, 2, 3}
    /\ objects.metadata[1].title = T_ShowA
    /\ objects.metadata[2].title = T_ShowA2
    /\ objects.metadata[3].title = T_ShowB
    /\ \A a \in {1, 2, 3} : InIndex(a)

(***************************************************************************)
(* C1: no response contains a seed id: recommend(id), on the collaborative *)
(* or the content-based path, never returns the query id, and              *)
(* recommend_batch(ids) never returns an id of ids, whether or not that    *)
(* seed has a latent vector.                                               *)
(***************************************************************************)
C1_NoSeedReturned ==
    /\ Served("recommend") => req.anime_id \notin RecIds
    /\ Served("recommend_batch") => RecIds \cap Range(req.anime_ids) = {}

\* a batch with a seed outside the index and a seed that has no catalog
\* entry (so only its id can exclude it) that returned something
C1_Witness ==
    /\ Served("recommend_batch")
    /\ \E a \in Range(req.anime_ids) : ~InIndex(a)
    /\ \E a \in Range(req.anime_ids) : InIndex(a) /\ ~InCatalog(a)
    /\ Recs # <<>>

(***************************************************************************)
(* C2: single-seed sequel exclusion: when the seed has a non-empty title,  *)
(* recommend(seed) returns no candidate with the seed's franchise key and  *)
(* none whose lower-cased title contains the seed's or is contained in it; *)
(* in the Show A / Show A Season 2 / Show B scenario recommend(1) never    *)
(* returns id 2.                                                           *)
(***************************************************************************)
C2_NoSequelOfSeed ==
    Served("recommend") =>
        /\ LowerTitleOf(req.anime_id) # <<>> =>
               \A r \in RecIds :
                   /\ FranchiseKey(r) # FranchiseKey(req.anime_id)
                   /\ ~TitlesRelated(r, req.anime_id)
        /\ (ShowScenario /\ req.anime_id = 1) => 2 \notin RecIds

\* the scenario, where recommend(1) did return id 3
C2_Witness ==
    /\ Served("recommend")
    /\ ShowScenario
    /\ req.anime_id = 1
    /\ RecIds = {3}

(***************************************************************************)
(* C3: the candidates of one response (recommend on either path, or        *)
(* recommend_batch) have pairwise distinct franchise keys, a candidate     *)
(* without a title counting as the empty key.                              *)
(***************************************************************************)
C3_DistinctFranchiseKeys ==
    (Served("recommend") \/ Served("recommend_batch")) =>
        \A i, j \in 1..Len(Recs) :
            i # j => FranchiseKey(Recs[i].id) # FranchiseKey(Recs[j].id)

\* two items of one franchise, neither the seed nor a sequel of the seed,
\* were both candidates and only one of them was returned
C3_Witness ==
    /\ Served("recommend")
    /\ resp.result.method = "collaborative"
    /\ \E a, b \in DOMAIN objects.anime_id_to_idx :
           /\ a # b
           /\ a \in RecIds
           /\ b \notin RecIds
           /\ b # req.anime_id
           /\ FranchiseKey(a) = FranchiseKey(b)
           /\ FranchiseKey(b) # FranchiseKey(req.anime_id)
           /\ ~TitlesRelated(b, req.anime_id)

(***************************************************************************)
(* C4: every response lists its candidates by non-increasing score and     *)
(* holds at most limit of them.                                            *)
(***************************************************************************)
C4_SortedAndCapped ==
    (Served("recommend") \/ Served("recommend_batch")) =>
        /\ Len(Recs) <= req.limit
        /\ \A i, j \in 1..Len(Recs) : i < j => Recs[i].score >= Recs[j].score

\* a full response of two candidates with different scores
C4_Witness ==
    /\ Served("recommend")
    /\ req.limit = 2
    /\ Len(Recs) = 2
    /\ Recs[1].score > Recs[2].score

(***************************************************************************)
(* C5: dispatch of recommend: an id in the latent factor index is served   *)
(* by the collaborative backend alone, with method "collaborative", even   *)
(* when that result is empty; an id outside the index but in the catalog   *)
(* is served with method "content_based".                                  *)
(***************************************************************************)
C5_Dispatch ==
    req.op = "recommend" =>
        /\ InIndex(req.anime_id) =>
               /\ resp.status = 200
               /\ resp.result.method = "collaborative"
               /\ called = <<"recommend_hybrid", "recommend_collaborative">>
        /\ (~InIndex(req.anime_id) /\ InCatalog(req.anime_id)) =>
               /\ resp.status = 200
               /\ resp.result.method = "content_based"
               /\ called = <<"recommend_hybrid", "recommend_content_based">>

\* an id known to both backends whose collaborative result is empty
C5_Witness ==
    /\ Served("recommend")
    /\ InIndex(req.anime_id)
    /\ InCatalog(req.anime_id)
    /\ resp.result.method = "collaborative"
    /\ Recs = <<>>
    /\ \E a \in DOMAIN objects.metadata : a # req.anime_id

(***************************************************************************)
(* C6: batch aggregation is an equal-weight mean: over distinct seeds, the *)
(* aggregated score of every candidate outside the seeds is the sum of its *)
(* raw scores against the seeds that have a latent vector, divided by the  *)
(* number of those seeds; the other seeds add nothing and are not counted. *)
(***************************************************************************)
RECURSIVE RawScoreSum(_, _)
RawScoreSum(seeds, c) ==
    IF seeds = {} THEN 0
    ELSE LET a == CHOOSE x \in seeds : TRUE
         IN  Cosine(LatentVector(c), LatentVector(a)) + RawScoreSum(seeds \ {a}, c)

DistinctSeeds == Cardinality(Range(req.anime_ids)) = Len(req.anime_ids)

C6_BatchScoreIsMean ==
    (Served("recommend_batch") /\ DistinctSeeds) =>
        LET valid == {a \in Range(req.anime_ids) : InIndex(a)}
            items == aggregated.items
        IN  /\ aggregated.valid_count = Cardinality(valid)
            /\ {items[k].id : k \in 1..Len(items)}
                   = DOMAIN objects.anime_id_to_idx \ Range(req.anime_ids)
            /\ \A k \in 1..Len(items) :
                   items[k].score * Cardinality(valid) = RawScoreSum(valid, items[k].id)
            /\ \A r \in 1..Len(Recs) :
                   \E k \in 1..Len(items) :
                       items[k].id = Recs[r].id /\ items[k].score = Recs[r].score

\* two valid seeds A and B and a returned candidate that scores differently
\* against them
C6_Witness ==
    /\ Served("recommend_batch")
    /\ Len(req.anime_ids) = 2
    /\ DistinctSeeds
    /\ \A a \in Range(req.anime_ids) : InIndex(a)
    /\ \E c \in RecIds :
           Cosine(LatentVector(c), LatentVector(req.anime_ids[1]))
               # Cosine(LatentVector(c), LatentVector(req.anime_ids[2]))

(***************************************************************************)
(* C7: recommend_batch with an empty seed collection signals invalid-input *)
(* (400), not not-found (404) and not service-unavailable (503).           *)
(***************************************************************************)
C7_EmptyBatchIsInvalidInput ==
    (req.op = "recommend_batch" /\ req.anime_ids = <<>>) =>
        /\ resp.status = 400
        /\ resp.result = NoResult

C7_Witness ==
    /\ req.op = "recommend_batch"
    /\ req.anime_ids = <<>>
    /\ resp.status = 400
    /\ DOMAIN objects.anime_id_to_idx # {}

(***************************************************************************)
(* C8: recommend_batch over a non-empty seed collection none of whose ids  *)
(* has a latent vector signals not-found (404) and returns nothing; the    *)
(* content-based backend is not entered, even when every seed is in the    *)
(* catalog.                                                                *)
(***************************************************************************)
C8_BatchNoValidSeedIsNotFound ==
    (/\ req.op = "recommend_batch"
     /\ req.anime_ids # <<>>
     /\ \A a \in Range(req.anime_ids) : ~InIndex(a)) =>
        /\ resp.status = 404
        /\ resp.result = NoResult
        /\ "recommend_content_based" \notin Range(called)

\* every seed is a cold-start item of the catalog, and the index is not empty
C8_Witness ==
    /\ req.op = "recommend_batch"
    /\ req.anime_ids # <<>>
    /\ \A a \in Range(req.anime_ids) : ~InIndex(a) /\ InCatalog(a)
    /\ DOMAIN objects.anime_id_to_idx # {}
    /\ resp.status = 404

(***************************************************************************)
(* C9: the sequel filter is applied to batch queries as to single-seed     *)
(* ones: recommend_batch returns no titled candidate whose franchise key   *)
(* is that of a seed, and none whose lower-cased title contains a seed's   *)
(* lower-cased title or is contained in it.                                *)
(***************************************************************************)
C9_BatchNoSequelOfSeeds ==
    Served("recommend_batch") =>
        \A r \in RecIds :
            \A a \in Range(req.anime_ids) :
                (InCatalog(a) /\ InCatalog(r)) =>
                    /\ FranchiseKey(r) # FranchiseKey(a)
                    /\ ~TitlesRelated(r, a)

(***************************************************************************)
(* C10: normalize_title is idempotent: applying it to its own output       *)
(* changes nothing.                                                        *)
(***************************************************************************)
C10_NormalizeIdempotent ==
    npc = 2 => nout[2] = nout[1]

(***************************************************************************)
(* C11: sequel-collapse: a base title X of plain words and X extended by   *)
(* a sequel marker (Season N, Nnd/Nrd/Nth Season, Final Season, Part N, a  *)
(* trailing integer, Shippuden, Brotherhood or Next Generations written    *)
(* after a colon or standalone, or a colon and a subtitle) have the same   *)
(* key; the key of the empty or absent title is the empty string.          *)
(***************************************************************************)
C11_SequelCollapse ==
    npc = 1 =>
        /\ nout[2] = nout[1]
        /\ nin = <<>> => nout[2] = <<>>

(***************************************************************************)
(* C12: a candidate with a similarity vector and no title in the catalog   *)
(* is not suppressed for that: when the limit leaves room for every        *)
(* candidate, a response of recommend (for a seed that has a title) or of  *)
(* recommend_batch holds such a candidate, and every returned candidate    *)
(* without a catalog entry carries the placeholder title of its id and the *)
(* genre "Unknown".                                                        *)
(***************************************************************************)
TitlelessCandidates ==
    {r \in DOMAIN objects.anime_id_to_idx :
        /\ ~InCatalog(r)
        /\ r \notin (IF req.op = "recommend" THEN {req.anime_id}
                     ELSE Range(req.anime_ids))}

C12_TitlelessCandidateReturned ==
    ((Served("recommend") /\ InIndex(req.anime_id) /\ InCatalog(req.anime_id))
        \/ Served("recommend_batch")) =>
        /\ (TitlelessCandidates # {}
                /\ Cardinality(DOMAIN objects.anime_id_to_idx) <= req.limit) =>
               RecIds \cap TitlelessCandidates # {}
        /\ \A k \in 1..Len(Recs) :
               ~InCatalog(Recs[k].id) =>
                   /\ Recs[k].title = PlaceholderTitle(Recs[k].id)
                   /\ Recs[k].genre = "Unknown"

ContextKeys ==
    {"model", "anime_id_to_idx", "idx_to_anime_id", "item_vectors", "metadata",
     "tfidf_vectorizer", "tfidf_matrix", "tfidf_anime_ids"}

C14_InitReadyGate ==
    /\ phase = "serving" =>
           /\ ContextKeys \subseteq DOMAIN objects
           /\ disk.model_exists /\ disk.metadata_exists
           /\ resp.status # 503
    /\ phase = "failed" =>
           /\ ~disk.model_exists \/ ~disk.metadata_exists
           /\ objects = EmptyDict
           /\ req = NoRequest
    /\ phase = "starting" => req = NoRequest

\* the model file was missing, the metadata was there: startup failed
C14_Witness ==
    /\ phase = "failed"
    /\ ~disk.model_exists
    /\ disk.metadata_exists

(***************************************************************************)
(* C15: franchise grouping keeps the best member: a returned candidate     *)
(* scores at least as high as every other candidate of its franchise key   *)
(* that reached the dedup step (not a seed, not excluded as a sequel of a  *)
(* seed), and among equal scores the one that came first in the            *)
(* score-descending order is the one kept.  In recommend the order of      *)
(* equal scores is the order argsort leaves them in, which is any order;   *)
(* in recommend_batch it is the order of the aggregated dict.              *)
(***************************************************************************)
\* the row of an item in the TF-IDF matrix
LexicalVector(a) == objects.tfidf_matrix[IndexOf(objects.tfidf_anime_ids, a)]

\* the candidates [id, score] that reach the dedup step of the request, in
\* recommend_batch in the order they are looped over
DedupCandidates ==
    IF req.op = "recommend_batch"
    THEN SelectSeq(Take(SortByScore(aggregated.items), BatchCandidates),
             LAMBDA c : \A a \in Range(req.anime_ids) :
                            InCatalog(a) => FranchiseKey(c.id) # FranchiseKey(a))
    ELSE LET seed == req.anime_id
             pool == IF InIndex(seed) THEN DOMAIN objects.anime_id_to_idx
                     ELSE Range(objects.tfidf_anime_ids)
             ids == Ascending({c \in pool :
                        /\ c # seed
                        /\ FranchiseKey(c) # FranchiseKey(seed)
                        /\ ~TitlesRelated(c, seed)})
         IN  [k \in 1..Len(ids) |->
                [id    |-> ids[k],
                 score |-> IF InIndex(seed)
                           THEN Cosine(LatentVector(seed), LatentVector(ids[k]))
                           ELSE Cosine(LexicalVector(seed), LexicalVector(ids[k]))]]

C15_GroupKeepsBest ==
    (Served("recommend") \/ Served("recommend_batch")) =>
        LET cands == DedupCandidates
            PosOf(id) == CHOOSE i \in 1..Len(cands) : cands[i].id = id
        IN  \A k \in 1..Len(Recs) :
                /\ \E i \in 1..Len(cands) :
                       cands[i].id = Recs[k].id /\ cands[i].score = Recs[k].score
                /\ \A i \in 1..Len(cands) :
                       (cands[i].id # Recs[k].id
                            /\ FranchiseKey(cands[i].id) = FranchiseKey(Recs[k].id)) =>
                           /\ Recs[k].score >= cands[i].score
                           /\ (req.op = "recommend_batch"
                                   /\ Recs[k].score = cands[i].score) =>
                                  PosOf(Recs[k].id) < i

\* a batch where two candidates of one franchise had the same score, the
\* later position of the index coming first in the id order
C15_Witness ==
    /\ Served("recommend_batch")
    /\ \E i, j \in 1..Len(DedupCandidates) :
           /\ i < j
           /\ DedupCandidates[i].id > DedupCandidates[j].id
           /\ DedupCandidates[i].score = DedupCandidates[j].score
           /\ FranchiseKey(DedupCandidates[i].id) = FranchiseKey(DedupCandidates[j].id)
           /\ DedupCandidates[i].id \in RecIds

(***************************************************************************)
(* C16: on a context without the id-to-index mapping but with the TF-IDF   *)
(* index, recommend_hybrid(id) does not signal service-unavailable: it     *)
(* enters the content-based backend, which serves an id of the catalog     *)
(* with method "content_based" and answers not-found (404) otherwise; a    *)
(* direct call of recommend_collaborative and a recommend_batch signal     *)
(* service-unavailable (503), also where the id or every seed is unknown.  *)
(***************************************************************************)
C16_HybridServesWithoutModel ==
    ("anime_id_to_idx" \notin DOMAIN objects /\ "tfidf_matrix" \in DOMAIN objects) =>
        /\ req.op = "recommend" =>
               /\ resp.status # 503
               /\ called = <<"recommend_hybrid", "recommend_content_based">>
               /\ IF InCatalog(req.anime_id)
                  THEN resp.status = 200 /\ resp.result.method = "content_based"
                  ELSE resp.status = 404
        /\ req.op = "recommend_collaborative" => resp.status = 503
        /\ (req.op = "recommend_batch" /\ req.anime_ids # <<>>) => resp.status = 503

\* recommend(id) served by the content-based backend with a non-empty
\* result, no model being loaded
C16_Witness ==
    /\ "anime_id_to_idx" \notin DOMAIN objects
    /\ Served("recommend")
    /\ resp.result.method = "content_based"
    /\ Recs # <<>>

(***************************************************************************)
(* C17: a seed with a latent vector and no title in the catalog gets an    *)
(* empty list from recommend_collaborative, whatever the catalog and the   *)
(* limit: its lower-cased title is the empty string, a substring of every  *)
(* candidate title; the call succeeds with method "collaborative".         *)
(***************************************************************************)
C17_TitlelessSeedGetsNothing ==
    (/\ req.op = "recommend"
     /\ InIndex(req.anime_id)
     /\ LowerTitleOf(req.anime_id) = <<>>) =>
        /\ called = <<"recommend_hybrid", "recommend_collaborative">>
        /\ resp.status = 200
        /\ resp.result.method = "collaborative"
        /\ Recs = <<>>

\* the index held two other items, of two franchises and with titles
C17_Witness ==
    /\ Served("recommend")
    /\ InIndex(req.anime_id)
    /\ ~InCatalog(req.anime_id)
    /\ Recs = <<>>
    /\ \E a, b \in DOMAIN objects.anime_id_to_idx \ {req.anime_id} :
           /\ InCatalog(a) /\ InCatalog(b)
           /\ FranchiseKey(a) # FranchiseKey(b)

====
